---- MODULE Spec2Model ----
(***************************************************************************)
(* valence_anvil: the chunk store over Anvil region files.                 *)
(*                                                                         *)
(* AnvilWorld keeps a bounded map of open region files (file handle,       *)
(* header snapshot, last use).  has_chunk and read_chunk take the lock on  *)
(* the map, resolve the region through the private region() step (sweep,   *)
(* random eviction, lazy load) and then read the header entries and the    *)
(* chunk record.  Each public call is one action: the lock is held for the *)
(* whole call.                                                             *)
(***************************************************************************)
EXTENDS Integers, Sequences, FiniteSets, TLC

VARIABLES max_open_files, region_retention, regions, disk, now, last,
          lock, tasks

vars == <<max_open_files, region_retention, regions, disk, now, last, lock, tasks>>

(***************************************************************************)
(* Bounds of the model.                                                    *)
(***************************************************************************)
\* largest max_open_files a world is constructed with
MaxOpenFiles == 2
\* largest region_retention (in clock ticks) a world is constructed with
MaxRetention == 1
\* the clock stops advancing here
MaxTime == 1
\* largest number of bytes a gzip / zlib stream inflates to
MaxInflated == 2
\* largest number of trailing bytes the tree decoder leaves unconsumed
MaxLeft == 1
\* number of tasks that call has_chunk concurrently
NumTasks == 2

(***************************************************************************)
(* Program constants.                                                      *)
(***************************************************************************)
SECTOR_SIZE == 4096

\* chunk coordinates the callers use (both signs, both sides of a region edge)
ChunkXs == {-1, 0, 1}
ChunkZs == {-1, 0, 2}
Positions == ChunkXs \X ChunkZs

(***************************************************************************)
(* i32::div_euclid / i32::rem_euclid by a positive divisor.                *)
(* TLA+'s \div and % already round towards minus infinity for a positive   *)
(* divisor, which is the Euclidean pair.                                   *)
(***************************************************************************)
\* a division that rounds towards zero, as the / operator of i32 does
div_trunc(a, b) == IF a < 0 THEN -((-a) \div b) ELSE a \div b

div_euclid(a, b) == a \div b
rem_euclid(a, b) == a % b

chunk_pos_to_region(pos) == <<div_euclid(pos[1], 32), div_euclid(pos[2], 32)>>

RegionCoords == {chunk_pos_to_region(p) : p \in Positions}

(***************************************************************************)
(* The region directory.  disk maps a region coordinate to the id of the   *)
(* file r.<x>.<z>.mca, 0 when there is no such file.  A file's bytes are   *)
(* given by FileByte: two header sectors (location table, timestamp table, *)
(* big-endian words) and then chunk records, one per sector.               *)
(***************************************************************************)
NoFile == 0
\* file ids 1..6 are region files of four sectors, file 7 is shorter than a header
TruncatedFile == 7
\* file 8 is file 1 after its header sectors were rewritten in place: other
\* location and timestamp tables, the same chunk records
RewritableFile == 1
RewrittenFile == 8

FileSize(f) == IF f = TruncatedFile THEN 100 ELSE 4 * SECTOR_SIZE

LocationWord(sector_offset, sector_count) == sector_offset * 256 + sector_count

\* the location table of file f; every slot not listed is absent
FileLocation(f, idx) ==
    CASE f = 1 /\ idx = 0    -> LocationWord(2, 1)
      [] f = 1 /\ idx = 33   -> LocationWord(2, 1)
      [] f = 1 /\ idx = 64   -> LocationWord(3, 1)
      [] f = 1 /\ idx = 65   -> LocationWord(1, 255)
      [] f = 2 /\ idx = 992  -> LocationWord(2, 1)
      [] f = 2 /\ idx = 993  -> LocationWord(3, 2)
      [] f = 3 /\ idx = 31   -> LocationWord(2, 0)
      [] f = 3 /\ idx = 95   -> LocationWord(3, 1)
      [] f = 4 /\ idx = 1023 -> LocationWord(4, 1)
      [] f = 5 /\ idx = 0    -> LocationWord(0, 1)
      [] f = 5 /\ idx = 1    -> LocationWord(2, 2)
      [] f = 5 /\ idx = 64   -> LocationWord(3, 0)
      [] f = 5 /\ idx = 65   -> LocationWord(3, 1)
      [] f = 6 /\ idx = 1023 -> LocationWord(3, 2)
      [] f = 8 /\ idx = 1    -> LocationWord(2, 1)
      [] f = 8 /\ idx = 64   -> LocationWord(1, 255)
      [] f = 8 /\ idx = 65   -> LocationWord(3, 1)
      [] OTHER -> 0

\* timestamps differ from slot to slot and from file to file, in all four bytes
\* (the model's words stay below 2^31)
FileTimestamp(f, idx) == 2147483647 - idx * 65537 - f

\* the chunk record stored at sector s of file f: length prefix and tag byte
RecordLength(f, s) ==
    CASE f \in {1, 8} /\ s = 2 -> 50
      [] f \in {1, 8} /\ s = 3 -> 4097
      [] f = 2 /\ s = 2 -> 4096
      [] f = 2 /\ s = 3 -> 8193
      [] f = 3 /\ s = 2 -> 0
      [] f = 3 /\ s = 3 -> 1
      [] f = 5 /\ s = 2 -> 10
      [] f = 5 /\ s = 3 -> 5
      [] f = 6 /\ s = 3 -> 4097
      [] OTHER -> 0

RecordTag(f, s) ==
    CASE f \in {1, 8} /\ s = 2 -> 3
      [] f \in {1, 8} /\ s = 3 -> 2
      [] f = 2 /\ s = 2 -> 1
      [] f = 2 /\ s = 3 -> 1
      [] f = 3 /\ s = 3 -> 255
      [] f = 5 /\ s = 2 -> 2
      [] f = 5 /\ s = 3 -> 0
      [] f = 6 /\ s = 3 -> 3
      [] OTHER -> 0

\* byte k (0 = most significant) of the big-endian encoding of a 32-bit word
BeByte(w, k) == (w \div (256 ^ (3 - k))) % 256

FileByte(f, off) ==
    IF off < SECTOR_SIZE
    THEN BeByte(FileLocation(f, off \div 4), off % 4)
    ELSE IF off < 2 * SECTOR_SIZE
    THEN BeByte(FileTimestamp(f, (off - SECTOR_SIZE) \div 4), off % 4)
    ELSE IF off % SECTOR_SIZE < 4
    THEN BeByte(RecordLength(f, off \div SECTOR_SIZE), off % 4)
    ELSE IF off % SECTOR_SIZE = 4
    THEN RecordTag(f, off \div SECTOR_SIZE)
    ELSE 0

\* the region directories the model starts from
DiskLayouts ==
    { [r \in RegionCoords |->
          CASE r = <<0, 0>>   -> 1
            [] r = <<0, -1>>  -> 2
            [] r = <<-1, 0>>  -> 3
            [] OTHER          -> 4],
      [r \in RegionCoords |->
          CASE r = <<0, 0>>   -> 5
            [] r = <<0, -1>>  -> NoFile
            [] r = <<-1, 0>>  -> TruncatedFile
            [] OTHER          -> 6] }

(***************************************************************************)
(* Region handles and the region map (BTreeMap<(i32, i32), Region>).       *)
(* header is the id of the file whose first 8192 bytes were copied at load *)
(* time, file the open file.  Every read of a chunk record seeks from the  *)
(* start of the file, so the open file's read position is not kept between *)
(* calls: last.fpos is where the last call left it (-1: it did not move).  *)
(***************************************************************************)
Handle(f, t) == [file |-> f, header |-> f, last_use |-> t]

MapLen(regs) == Cardinality(DOMAIN regs)

\* Instant::elapsed of a handle's last use
Elapsed(h, t) == t - h.last_use

\* a sweep that keeps a handle whose idle time equals the retention
RetainThrough(regs, t, retention) ==
    [k \in {j \in DOMAIN regs : Elapsed(regs[j], t) <= retention} |-> regs[k]]

\* regions.retain(|_, r| r.last_use.elapsed() < self.region_retention)
Retain(regs, t, retention) ==
    [k \in {j \in DOMAIN regs : Elapsed(regs[j], t) < retention} |-> regs[k]]

\* the BTreeMap's key order: tuples compare lexicographically
KeyLess(a, b) == a[1] < b[1] \/ (a[1] = b[1] /\ a[2] < b[2])

\* regions.iter().nth(idx): the keys at position idx of the ordered map,
\* empty when idx is past the end
Nth(regs, idx) ==
    {k \in DOMAIN regs : Cardinality({j \in DOMAIN regs : KeyLess(j, k)}) = idx}

\* rng.gen_range(0..=(regions.len()))
GenRange(len) == 0..len

Remove(regs, key) == [k \in DOMAIN regs \ {key} |-> regs[k]]

Insert(regs, key, h) == [k \in DOMAIN regs \cup {key} |-> IF k = key THEN h ELSE regs[k]]

\* a sweep that runs whatever the size of the map
SweptAlways(regs, t, N, retention) == Retain(regs, t, retention)

\* a sweep that already runs one entry below capacity
SweptOneEarly(regs, t, N, retention) ==
    IF MapLen(regs) + 1 >= N THEN Retain(regs, t, retention) ELSE regs

\* the map after the capacity check's sweep
Swept(regs, t, N, retention) ==
    IF MapLen(regs) >= N THEN Retain(regs, t, retention) ELSE regs

\* a lookup that evicts only once the map is over capacity
ForcedWhenOver(regs, t, N, retention) ==
    MapLen(regs) > N /\ MapLen(Swept(regs, t, N, retention)) > N

\* whether the lookup goes on to evict an entry at random
Forced(regs, t, N, retention) ==
    MapLen(regs) >= N /\ MapLen(Swept(regs, t, N, retention)) >= N

\* the random numbers a lookup can draw
Draws(regs, t, N, retention) ==
    IF Forced(regs, t, N, retention)
    THEN GenRange(MapLen(Swept(regs, t, N, retention)))
    ELSE {0}

(***************************************************************************)
(* AnvilWorld::region.  rnd is the number the generator returned.          *)
(* out is "handle" (Ok(Some)), "not_found" / "io_error" (Err(Io)) or       *)
(* "panic" (the unwrap of nth's None); regions is the map it leaves.       *)
(* before, swept and victim tell what the lookup found and removed.        *)
(***************************************************************************)

\* lines 189-212: the capacity check, the sweep and the random eviction
Evict(regs, rnd, t, N, retention) ==
    LET swept  == Swept(regs, t, N, retention)
        forced == Forced(regs, t, N, retention)
        victim == Nth(swept, rnd)
    IN  [panic   |-> forced /\ victim = {},
         regions |-> IF forced /\ victim # {}
                     THEN Remove(swept, CHOOSE k \in victim : TRUE)
                     ELSE swept,
         forced  |-> forced,
         victim  |-> IF forced THEN victim ELSE {},
         swept   |-> DOMAIN regs \ DOMAIN swept]

\* an occupied entry whose last use is left as it was
HitUntouched(regs, r, t) == regs

\* Entry::Occupied and line 236: the handle found, last use refreshed
Hit(regs, r, t) == [regs EXCEPT ![r].last_use = t]

\* a load that commits the handle before the header is read
LoadCommitFirst(regs, r, dsk, t) ==
    IF dsk[r] = NoFile
    THEN [out |-> "not_found", regions |-> regs, loaded |-> FALSE]
    ELSE IF FileSize(dsk[r]) < 2 * SECTOR_SIZE
    THEN [out |-> "io_error", regions |-> Insert(regs, r, Handle(dsk[r], t)),
          loaded |-> FALSE]
    ELSE [out |-> "handle", regions |-> Insert(regs, r, Handle(dsk[r], t)),
          loaded |-> TRUE]

\* Entry::Vacant (lines 216-233) and line 236: open the file, read the header,
\* then insert the handle
Load(regs, r, dsk, t) ==
    IF dsk[r] = NoFile
    THEN [out |-> "not_found", regions |-> regs, loaded |-> FALSE]
    ELSE IF FileSize(dsk[r]) < 2 * SECTOR_SIZE
    THEN [out |-> "io_error", regions |-> regs, loaded |-> FALSE]
    ELSE [out |-> "handle", regions |-> Insert(regs, r, Handle(dsk[r], t)),
          loaded |-> TRUE]

\* an entry step that loads the region whether or not it is cached
EntryAlwaysLoads(regs, r, dsk, t) == Load(regs, r, dsk, t)

\* lines 214-237: regions.entry(region)
Entry(regs, r, dsk, t) ==
    IF r \in DOMAIN regs
    THEN [out |-> "handle", regions |-> Hit(regs, r, t), loaded |-> FALSE]
    ELSE Load(regs, r, dsk, t)

Region(regs, r, rnd, dsk, t, N, retention) ==
    LET e == Evict(regs, rnd, t, N, retention)
        g == Entry(e.regions, r, dsk, t)
    IN  IF e.panic
        THEN [out |-> "panic", regions |-> e.regions, forced |-> TRUE,
              victim |-> {}, loaded |-> FALSE,
              before |-> DOMAIN regs, swept |-> e.swept]
        ELSE [out |-> g.out, regions |-> g.regions, forced |-> e.forced,
              victim |-> e.victim, loaded |-> g.loaded,
              before |-> DOMAIN regs, swept |-> e.swept]

(***************************************************************************)
(* Reads.  read_u32 is big-endian.                                         *)
(***************************************************************************)
U32(b0, b1, b2, b3) == ((b0 * 256 + b1) * 256 + b2) * 256 + b3

\* (&region.header[off..]).read_u32()
HeaderU32(h, off) ==
    U32(FileByte(h.header, off), FileByte(h.header, off + 1),
        FileByte(h.header, off + 2), FileByte(h.header, off + 3))

\* region.file.read_u32() at position p
FileU32(f, p) ==
    U32(FileByte(f, p), FileByte(f, p + 1), FileByte(f, p + 2), FileByte(f, p + 3))

\* whether n bytes can be read from file f at position p
CanRead(f, p, n) == p + n <= FileSize(f)

\* the read position after a read_exact that hit the end of the file
AfterShortRead(f, p) == IF p >= FileSize(f) THEN p ELSE FileSize(f)

\* has_chunk's index into the location table
HasChunkIdx(pos) == rem_euclid(pos[1], 32) + rem_euclid(pos[1], 32) * 32

\* the index with x used for both coordinates
ChunkIdxOfX(pos) == rem_euclid(pos[1], 32) + rem_euclid(pos[1], 32) * 32

\* read_chunk's index into the location and timestamp tables
ChunkIdx(pos) == rem_euclid(pos[1], 32) + rem_euclid(pos[2], 32) * 32

SectorOffset(location_bytes) == location_bytes \div 256
SectorCount(location_bytes) == location_bytes % 256

\* a sector check that lets offset 1 through
BadSectorZeroOnly(sector_offset) == sector_offset < 1

BadSector(sector_offset) == sector_offset < 2

\* a size check that refuses a record filling its sectors exactly
BadSizeWhenFull(exact_chunk_size, sector_count) ==
    exact_chunk_size >= sector_count * SECTOR_SIZE

BadSize(exact_chunk_size, sector_count) == exact_chunk_size > sector_count * SECTOR_SIZE

\* a match without the uncompressed arm
SchemeWithoutRaw(b) ==
    CASE b = 1 -> "gzip"
      [] b = 2 -> "zlib"
      [] OTHER -> "unknown"

\* the match on the compression tag
Scheme(b) ==
    CASE b = 1 -> "gzip"
      [] b = 2 -> "zlib"
      [] b = 3 -> "none"
      [] OTHER -> "unknown"

\* location_bytes == 0: no chunk exists at this position
Absent(location_bytes) == location_bytes = 0

\* where the header keeps the entries of a chunk index
LocationOffset(chunk_idx) == chunk_idx * 4
\* the timestamp read from the location table
TimestampInLocationTable(chunk_idx) == chunk_idx * 4

TimestampOffset(chunk_idx) == chunk_idx * 4 + SECTOR_SIZE

\* valence_nbt::from_binary_slice on a slice of n bytes: a syntax error
\* (left = -1, or nothing consumed), or a tree and left unconsumed bytes
NbtDecode(n, left) == IF left < 0 \/ left >= n THEN -1 ELSE left

\* a trailing-byte check that tolerates one byte
IncompleteBeyondOne(rest) == rest > 1

Incomplete(rest) == rest # 0

NoTree == "none"
Trees == {"tree_a", "tree_b"}

Result(kind, scheme, timestamp, data) ==
    [kind |-> kind, scheme |-> scheme, timestamp |-> timestamp, data |-> data]

Err(kind) == Result(kind, -1, -1, NoTree)


(***************************************************************************)
(* read_chunk after the region lookup returned handle h: the set of ways   *)
(* the call can end.  What a gzip / zlib stream inflates to and what the   *)
(* tree decoder answers are not decided by this code: every answer of      *)
(* InflateAnswers and DecodeAnswers is possible.                           *)
(* steps lists the file and codec operations performed, in order.          *)
(***************************************************************************)
Outcome(result, fpos, steps, loc, len, tag, rest) ==
    [result |-> result, fpos |-> fpos, steps |-> steps,
     loc |-> loc, len |-> len, tag |-> tag, rest |-> rest, decoded |-> NoTree]

\* read_to_end of the decoder: -1 for a corrupt stream, else the inflated size
InflateAnswers == -1..MaxInflated

\* from_binary_slice: left (see NbtDecode) and the tree it built
DecodeAnswers == (-1..MaxLeft) \X Trees

\* lines 179-185: decode the slice of n bytes, refuse trailing bytes
DecodeSlice(fpos, steps, loc, len, tag, n, timestamp) ==
    { LET rest == NbtDecode(n, d[1])
          done == Append(steps, "decode")
      IN  IF rest < 0
          THEN Outcome(Err("Nbt"), fpos, done, loc, len, tag, rest)
          ELSE [ (IF Incomplete(rest)
                  THEN Outcome(Err("IncompleteNbtRead"), fpos, done, loc, len, tag, rest)
                  ELSE Outcome(Result("Ok(Some)", -1, timestamp, d[2]), fpos, done,
                               loc, len, tag, rest))
                 EXCEPT !.decoded = d[2] ]
      : d \in DecodeAnswers }

\* lines 152-177: read the payload and its tag, inflate
ReadPayload(h, p1, loc, len, timestamp) ==
    LET s3 == <<"seek", "read_len", "read_payload">>
        s4 == Append(s3, "read_tag")
        s5 == Append(s4, "inflate")
        p2 == p1 + len
        b  == FileByte(h.file, p1)
    IN  IF ~CanRead(h.file, p1, len)
        THEN {Outcome(Err("Io"), AfterShortRead(h.file, p1), s3, loc, len, -1, -1)}
        ELSE IF len = 0
        THEN {Outcome(Err("Io"), p2, s4, loc, len, -1, -1)}
        ELSE IF Scheme(b) \in {"gzip", "zlib"}
        THEN UNION { IF n < 0
                     THEN {Outcome(Err("Io"), p2, s5, loc, len, b, -1)}
                     ELSE DecodeSlice(p2, s5, loc, len, b, n, timestamp)
                     : n \in InflateAnswers }
        ELSE IF Scheme(b) = "none"
        THEN DecodeSlice(p2, s4, loc, len, b, len - 1, timestamp)
        ELSE {Outcome(Result("UnknownCompressionScheme", b, -1, NoTree),
                      p2, s4, loc, len, b, -1)}

\* lines 121-150: the header entries, the sector offset and the size check
ReadRecord(h, pos) ==
    LET chunk_idx      == ChunkIdx(pos)
        location_bytes == HeaderU32(h, LocationOffset(chunk_idx))
        timestamp      == HeaderU32(h, TimestampOffset(chunk_idx))
        sector_offset  == SectorOffset(location_bytes)
        sector_count   == SectorCount(location_bytes)
        p0             == sector_offset * SECTOR_SIZE
        exact_chunk_size == FileU32(h.file, p0)
        s2             == <<"seek", "read_len">>
    IN  IF Absent(location_bytes)
        THEN {Outcome(Result("Ok(None)", -1, -1, NoTree), -1, <<>>,
                      location_bytes, -1, -1, -1)}
        ELSE IF BadSector(sector_offset)
        THEN {Outcome(Err("BadSectorOffset"), -1, <<>>, location_bytes, -1, -1, -1)}
        ELSE IF ~CanRead(h.file, p0, 4)
        THEN {Outcome(Err("Io"), AfterShortRead(h.file, p0), s2,
                      location_bytes, -1, -1, -1)}
        ELSE IF BadSize(exact_chunk_size, sector_count)
        THEN {Outcome(Err("BadChunkSize"), p0 + 4, s2,
                      location_bytes, exact_chunk_size, -1, -1)}
        ELSE ReadPayload(h, p0 + 4, location_bytes, exact_chunk_size, timestamp)

(***************************************************************************)
(* The state machine.                                                      *)
(***************************************************************************)
NoPos == <<0, 0>>

\* what the model remembers of the last call: region and slot are the region
\* coordinate and the header index the call computed from pos
Last(op, pos, slot, g, o) ==
    [op |-> op, pos |-> pos, region |-> chunk_pos_to_region(pos), slot |-> slot,
     lookup |-> g.out, forced |-> g.forced,
     victim |-> g.victim, loaded |-> g.loaded,
     before |-> g.before, swept |-> g.swept,
     result |-> o.result, steps |-> o.steps, fpos |-> o.fpos,
     loc |-> o.loc, len |-> o.len, tag |-> o.tag, rest |-> o.rest,
     decoded |-> o.decoded]

\* a caller that takes every failed lookup for an absent region
NoHandleAllAbsent(g, absent) ==
    Outcome(CASE g.out \in {"not_found", "io_error"} -> Result(absent, -1, -1, NoTree)
              [] OTHER -> Err("panic"),
            -1, <<>>, -1, -1, -1, -1)

\* what the caller gets when the lookup did not produce a handle
NoHandle(g, absent) ==
    Outcome(CASE g.out = "not_found" -> Result(absent, -1, -1, NoTree)
              [] g.out = "io_error"  -> Err("Io")
              [] OTHER               -> Err("panic"),
            -1, <<>>, -1, -1, -1, -1)

\* has_chunk's answer from the outcome g of the region lookup
HasChunkResult(g, pos) ==
    LET r == chunk_pos_to_region(pos)
        location_bytes == HeaderU32(g.regions[r], LocationOffset(HasChunkIdx(pos)))
    IN  IF g.out = "handle"
        THEN Outcome(Result(IF location_bytes # 0 THEN "Ok(true)" ELSE "Ok(false)",
                            -1, -1, NoTree),
                     -1, <<>>, location_bytes, -1, -1, -1)
        ELSE NoHandle(g, "Ok(false)")

\* the tasks that share the world, and the value of lock when no task holds it
Tasks == 1..NumTasks
NoTask == 0

\* a task that is not inside has_chunk
IdleTask ==
    [pc |-> "idle", pos |-> NoPos, seen |-> <<>>, rnd |-> 0, t1 |-> 0, t2 |-> 0,
     forced |-> FALSE, victim |-> {}, swept |-> {}]

\* AnvilWorld::new
Init ==
    /\ max_open_files \in 1..MaxOpenFiles
    /\ region_retention \in 0..MaxRetention
    /\ regions = <<>>
    /\ disk \in DiskLayouts
    /\ now = 0
    /\ last = [op |-> "new", pos |-> NoPos, region |-> <<0, 0>>, slot |-> -1,
               lookup |-> "none", forced |-> FALSE,
               victim |-> {}, loaded |-> FALSE, before |-> {}, swept |-> {},
               result |-> Err("none"), steps |-> <<>>, fpos |-> -1,
               loc |-> -1, len |-> -1, tag |-> -1, rest |-> -1, decoded |-> NoTree]
    /\ lock = NoTask
    /\ tasks = [t \in Tasks |-> IdleTask]

\* AnvilWorld::has_chunk
HasChunk(pos) ==
    \E rnd \in Draws(regions, now, max_open_files, region_retention) :
      \E g \in {Region(regions, chunk_pos_to_region(pos), rnd, disk, now,
                         max_open_files, region_retention)} :
        /\ regions' = g.regions
        /\ last' = Last("has_chunk", pos, HasChunkIdx(pos), g, HasChunkResult(g, pos))
        /\ UNCHANGED <<max_open_files, region_retention, disk, now, lock, tasks>>

\* AnvilWorld::read_chunk
ReadChunk(pos) ==
    \E rnd \in Draws(regions, now, max_open_files, region_retention) :
      \E g \in {Region(regions, chunk_pos_to_region(pos), rnd, disk, now,
                         max_open_files, region_retention)} :
        LET r == chunk_pos_to_region(pos)
        IN  \E o \in (IF g.out = "handle"
                      THEN ReadRecord(g.regions[r], pos)
                      ELSE {NoHandle(g, "Ok(None)")}) :
                /\ regions' = g.regions
                /\ last' = Last("read_chunk", pos, ChunkIdx(pos), g, o)
                /\ UNCHANGED <<max_open_files, region_retention, disk, now, lock, tasks>>

\* the clock (tokio::time::Instant) advances
Tick ==
    /\ now < MaxTime
    /\ now' = now + 1
    /\ UNCHANGED <<max_open_files, region_retention, regions, disk, last, lock, tasks>>

\* another process rewrites the header sectors of a region file in place:
\* the directory entry and every open handle on the file see the new bytes,
\* the header snapshot of a cached handle is memory of this process
RewriteHeader(r) ==
    /\ disk[r] = RewritableFile
    /\ disk' = [disk EXCEPT ![r] = RewrittenFile]
    /\ regions' = [k \in DOMAIN regions |->
                       IF k = r THEN [regions[k] EXCEPT !.file = RewrittenFile]
                                ELSE regions[k]]
    /\ UNCHANGED <<max_open_files, region_retention, now, last, lock, tasks>>

Next ==
    \/ \E pos \in Positions : HasChunk(pos)
    \/ \E pos \in Positions : ReadChunk(pos)
    \/ Tick

Spec == Init /\ [][Next]_vars

\* the same world next to a process that rewrites region headers: the directory
\* starts with a rewritable file, the callers ask for chunks of two regions
SnapshotInit == Init /\ \E r \in RegionCoords : disk[r] = RewritableFile

SnapshotPositions == {p \in Positions : p[1] >= 0}

SnapshotNext ==
    \/ \E pos \in SnapshotPositions : HasChunk(pos)
    \/ \E pos \in SnapshotPositions : ReadChunk(pos)
    \/ Tick
    \/ \E r \in RegionCoords : RewriteHeader(r)

SnapshotSpec == SnapshotInit /\ [][SnapshotNext]_vars

(***************************************************************************)
(* The coordinate arithmetic on its own, over chunk coordinates from the   *)
(* whole i32 range: around zero, on both sides of region edges, and at the *)
(* ends of the range (the model's integers stop one short of i32::MIN).    *)
(***************************************************************************)
WideCoords == {-2147483647, -2147483616, -65, -64, -33, -32, -31, -1,
               0, 1, 31, 32, 33, 63, 64, 2147483616, 2147483647}
WidePositions == WideCoords \X WideCoords

\* read_chunk's first two computations: the region of pos and its header index
Locate(pos) ==
    /\ last' = [last EXCEPT !.op = "locate", !.pos = pos,
                            !.region = chunk_pos_to_region(pos),
                            !.slot = ChunkIdx(pos)]
    /\ UNCHANGED <<max_open_files, region_retention, regions, disk, now, lock, tasks>>

CoordNext == \E pos \in WidePositions : Locate(pos)

CoordSpec == Init /\ [][CoordNext]_vars

(***************************************************************************)
(* Several tasks inside has_chunk at once.  A call is a sequence of steps: *)
(* the task asks for the lock (line 93), gets it, runs the capacity check  *)
(* with sweep and eviction (lines 189-212), resolves the map entry and     *)
(* reads the location word (lines 214-237, 101-104), and drops the guard   *)
(* when the function returns or unwinds.  seen is the map the task found   *)
(* when it got the lock, t1 and t2 the clock at its two steps on the map.  *)
(***************************************************************************)
\* chunk coordinates the concurrent callers use: one in each of two regions
ConcPositions == {<<0, 0>>, <<-1, 0>>}

\* a lock that lets every task in
LockIgnored(l) == TRUE

\* Mutex::lock completes only while no guard is alive
LockFree(l) == l = NoTask

\* the task is between acquiring and releasing the lock
InLock(t) == tasks[t].pc \in {"locked", "evicted", "entered", "panicked"}

\* has_chunk is called: self.regions.lock() is awaited
Start(t, pos) ==
    /\ tasks[t].pc = "idle"
    /\ tasks' = [tasks EXCEPT ![t] = [IdleTask EXCEPT !.pc = "waiting", !.pos = pos]]
    /\ UNCHANGED <<max_open_files, region_retention, regions, disk, now, last, lock>>

\* the await completes: the task holds the MutexGuard
Acquire(t) ==
    /\ tasks[t].pc = "waiting"
    /\ LockFree(lock)
    /\ lock' = t
    /\ tasks' = [tasks EXCEPT ![t].pc = "locked", ![t].seen = regions]
    /\ UNCHANGED <<max_open_files, region_retention, regions, disk, now, last>>

\* region(), lines 189-212, on the shared map
CapacityCheck(t) ==
    /\ tasks[t].pc = "locked"
    /\ \E rnd \in Draws(regions, now, max_open_files, region_retention) :
         \E e \in {Evict(regions, rnd, now, max_open_files, region_retention)} :
           /\ regions' = e.regions
           /\ tasks' = [tasks EXCEPT ![t].pc = IF e.panic THEN "panicked" ELSE "evicted",
                                      ![t].rnd = rnd, ![t].t1 = now,
                                      ![t].forced = e.forced,
                                      ![t].victim = e.victim,
                                      ![t].swept = e.swept]
           /\ last' = IF e.panic
                      THEN LET g == [out |-> "panic", regions |-> e.regions,
                                     forced |-> TRUE, victim |-> {}, loaded |-> FALSE,
                                     before |-> DOMAIN regions, swept |-> e.swept]
                           IN  Last("has_chunk", tasks[t].pos, HasChunkIdx(tasks[t].pos),
                                    g, NoHandle(g, "Ok(false)"))
                      ELSE last
    /\ UNCHANGED <<max_open_files, region_retention, disk, now, lock>>

\* region(), lines 214-237, and has_chunk's read of the location word
EntryStep(t) ==
    /\ tasks[t].pc = "evicted"
    /\ \E n \in {Entry(regions, chunk_pos_to_region(tasks[t].pos), disk, now)} :
         LET g == [out |-> n.out, regions |-> n.regions, forced |-> tasks[t].forced,
                   victim |-> tasks[t].victim, loaded |-> n.loaded,
                   before |-> DOMAIN regions \cup tasks[t].victim \cup tasks[t].swept,
                   swept |-> tasks[t].swept]
         IN  /\ regions' = n.regions
             /\ last' = Last("has_chunk", tasks[t].pos, HasChunkIdx(tasks[t].pos),
                             g, HasChunkResult(g, tasks[t].pos))
    /\ tasks' = [tasks EXCEPT ![t].pc = "entered", ![t].t2 = now]
    /\ UNCHANGED <<max_open_files, region_retention, disk, now, lock>>

\* has_chunk returns, or unwinds from the panic: the guard is dropped
Release(t) ==
    /\ tasks[t].pc \in {"entered", "panicked"}
    /\ lock' = (IF lock = t THEN NoTask ELSE lock)
    /\ tasks' = [tasks EXCEPT ![t] = IdleTask]
    /\ UNCHANGED <<max_open_files, region_retention, regions, disk, now, last>>

ConcNext ==
    \/ \E t \in Tasks, pos \in ConcPositions : Start(t, pos)
    \/ \E t \in Tasks : Acquire(t)
    \/ \E t \in Tasks : CapacityCheck(t)
    \/ \E t \in Tasks : EntryStep(t)
    \/ \E t \in Tasks : Release(t)
    \/ Tick

ConcSpec == Init /\ [][ConcNext]_vars


(***************************************************************************)
(* Properties.                                                             *)
(***************************************************************************)
LastRegion == chunk_pos_to_region(last.pos)

\* the last call was op and its lookup returned the region's handle
Returned(op) == last.op = op /\ last.lookup = "handle"

\* the in-region index of a chunk coordinate
SlotOf(pos) == (pos[1] % 32) + (pos[2] % 32) * 32

\* the big-endian word at byte off of the looked-up region's header
HeaderWord(off) ==
    LET f == regions[LastRegion].header
    IN  FileByte(f, off) * 16777216 + FileByte(f, off + 1) * 65536
        + FileByte(f, off + 2) * 256 + FileByte(f, off + 3)

\* the location word of the chunk the last call asked for
LastLocation == HeaderWord(4 * SlotOf(last.pos))

Did(step) == \E i \in DOMAIN last.steps : last.steps[i] = step

\* C1: whenever a region lookup returns (a handle or an error), the region
\* map holds at most max_open_files handles.
C1_CacheBounded ==
    last.lookup \in {"handle", "not_found", "io_error"}
        => Cardinality(DOMAIN regions) <= max_open_files

C1_Witness ==
    /\ last.lookup = "handle" /\ last.forced /\ last.loaded
    /\ max_open_files = 2
    /\ Cardinality(DOMAIN regions) = 2

\* C2: a lookup that finds the cache at or above capacity after the sweep
\* removes exactly one cached region, whatever the random choice, does not
\* abort, and goes on to load the requested region when its file is loadable.
C2_ForcedEvictionLoads ==
    last.forced =>
        /\ last.lookup # "panic"
        /\ Cardinality(last.victim) = 1
        /\ (disk[LastRegion] # NoFile /\ FileSize(disk[LastRegion]) >= 2 * SECTOR_SIZE
               => LastRegion \in DOMAIN regions)

\* C3: for a region that is loaded, has_chunk answers true exactly when the
\* location word at the chunk's index (x mod 32) + (z mod 32) * 32 is non-zero.
C3_HasChunkReadsChunkSlot ==
    Returned("has_chunk") =>
        ((last.result.kind = "Ok(true)") <=> (LastLocation # 0))

\* C4: when the region file of the chunk does not exist, has_chunk returns
\* Ok(false) and read_chunk returns Ok(None), in every cache state.
C4_MissingRegionIsAbsent ==
    /\ (last.op = "has_chunk" /\ disk[LastRegion] = NoFile
           => last.result.kind = "Ok(false)")
    /\ (last.op = "read_chunk" /\ disk[LastRegion] = NoFile
           => last.result.kind = "Ok(None)")

\* C5 as claimed: a location word whose sector offset (top 24 bits) is below 2
\* makes read_chunk fail with BadSectorOffset, whatever the other fields.
C5_LowSectorOffsetFails ==
    Returned("read_chunk") /\ LastLocation \div 256 < 2
        => last.result.kind = "BadSectorOffset"

\* C5 amended: a non-zero location word whose sector offset is below 2 makes
\* read_chunk fail with BadSectorOffset, whatever the sector count and the
\* timestamp, and without touching the file.
C5_NonZeroLowSectorOffsetFails ==
    Returned("read_chunk") /\ LastLocation # 0 /\ LastLocation \div 256 < 2
        => last.result.kind = "BadSectorOffset" /\ last.steps = <<>>

C5_Witness ==
    /\ Returned("read_chunk")
    /\ LastLocation = 1 * 256 + 255
    /\ last.result.kind = "BadSectorOffset"

\* C6: a location word of 0 makes read_chunk return Ok(None) without seeking
\* or reading the region file, whatever the timestamp entry holds.
C6_ZeroWordIsAbsent ==
    Returned("read_chunk") /\ LastLocation = 0
        => /\ last.result.kind = "Ok(None)"
           /\ last.steps = <<>>
           /\ last.fpos = -1

C6_Witness ==
    /\ Returned("read_chunk")
    /\ LastLocation = 0
    /\ HeaderWord(SECTOR_SIZE + 4 * SlotOf(last.pos)) # 0
    /\ last.result.kind = "Ok(None)"

\* C7: with a sector offset of at least 2 and a readable length prefix L,
\* L > sector_count * 4096 makes read_chunk fail with BadChunkSize right after
\* reading the prefix (no payload read, no tag, no inflate, no decode), and
\* L <= sector_count * 4096 never fails with BadChunkSize.
C7_SizeCheck ==
    LET offset == LastLocation \div 256
        count  == LastLocation % 256
        f      == regions[LastRegion].file
        L      == FileU32(f, offset * 4096)
    IN  Returned("read_chunk") /\ offset >= 2 /\ offset * 4096 + 4 <= FileSize(f)
            => /\ L > count * 4096
                   => last.result.kind = "BadChunkSize"
                      /\ last.steps = <<"seek", "read_len">>
               /\ L <= count * 4096 => last.result.kind # "BadChunkSize"

C7_Witness ==
    /\ Returned("read_chunk")
    /\ LastLocation = 3 * 256 + 1
    /\ last.len = 4097
    /\ last.result.kind = "BadChunkSize"

\* C8: for a record that passed the sector-offset and size checks and whose
\* payload of at least one byte was read, a tag b outside {1, 2, 3} makes
\* read_chunk fail with UnknownCompressionScheme(b), with no inflate and no
\* decode; a tag in {1, 2, 3} never fails with UnknownCompressionScheme.
C8_UnknownScheme ==
    LET offset == LastLocation \div 256
        count  == LastLocation % 256
        f      == regions[LastRegion].file
        L      == FileU32(f, offset * 4096)
        b      == FileByte(f, offset * 4096 + 4)
    IN  /\ Returned("read_chunk") /\ offset >= 2
        /\ offset * 4096 + 4 <= FileSize(f)
        /\ L <= count * 4096 /\ L >= 1
        /\ offset * 4096 + 4 + L <= FileSize(f)
        => /\ b \notin {1, 2, 3}
               => /\ last.result.kind = "UnknownCompressionScheme"
                  /\ last.result.scheme = b
                  /\ ~Did("inflate") /\ ~Did("decode")
           /\ b \in {1, 2, 3} => last.result.kind # "UnknownCompressionScheme"

C8_Witness ==
    /\ Returned("read_chunk")
    /\ last.result.kind = "UnknownCompressionScheme"
    /\ last.result.scheme = 255
    /\ last.len = 1

\* C9: read_chunk returns a chunk only when the tree decoder consumed every
\* byte: a successful decode that leaves bytes fails with IncompleteNbtRead
\* and returns no tree, one that leaves none returns the decoded tree.
C9_WholePayloadDecoded ==
    last.op = "read_chunk" =>
        /\ last.result.kind = "Ok(Some)"
               => Did("decode") /\ last.rest = 0 /\ last.result.data = last.decoded
                  /\ last.decoded \in Trees
        /\ Did("decode") /\ last.rest > 0
               => last.result.kind = "IncompleteNbtRead" /\ last.result.data = NoTree
        /\ Did("decode") /\ last.rest = 0
               => last.result.kind = "Ok(Some)" /\ last.result.data = last.decoded

C9_Witness ==
    /\ Returned("read_chunk")
    /\ last.tag = 3 /\ last.len = 50 /\ last.rest = 0
    /\ last.result.kind = "Ok(Some)"
    /\ last.result.data = "tree_b"

\* C10: the timestamp of a returned chunk is the big-endian word at byte
\* 4096 + 4 * idx of the region header, idx being the chunk's index.
C10_TimestampFromParallelTable ==
    last.op = "read_chunk" /\ last.result.kind = "Ok(Some)"
        => last.result.timestamp = HeaderWord(4096 + 4 * SlotOf(last.pos))

C10_Witness ==
    /\ Returned("read_chunk")
    /\ last.result.kind = "Ok(Some)"
    /\ last.tag = 1
    /\ last.result.timestamp = HeaderWord(4096 + 4 * SlotOf(last.pos))
    /\ last.result.timestamp # LastLocation

\* the last step was a has_chunk or read_chunk call
Called == last.op \in {"has_chunk", "read_chunk"}

\* a step that is one call: neither the clock nor the directory moves
CallStep == now' = now /\ disk' = disk /\ last'.op \in {"has_chunk", "read_chunk"}

\* the lookup of the last call ended in a load failure
LoadFailed == Called /\ last.lookup \in {"not_found", "io_error"}

\* C11: a lookup of a region that is cached when the call starts returns the
\* cached handle: the region is neither swept nor chosen as the victim, and
\* its file is not opened and its header not read again, also at capacity.
C11_CachedRegionIsReturned ==
    Called /\ last.region \in last.before
        => /\ last.lookup = "handle"
           /\ ~last.loaded
           /\ last.region \notin last.victim
           /\ last.region \notin last.swept

\* C12 as claimed: for every retention, a handle whose last use is the
\* present instant is kept by a sweep at that instant.
C12_FreshHandleSurvivesSweep ==
    Called /\ last.lookup = "handle" /\ regions[last.region].last_use = now
        => last.region \in DOMAIN Retain(regions, now, region_retention)

\* C12 amended: a lookup that returns a handle leaves the handle's last use
\* at the time of the call, and for every retention greater than zero a sweep
\* at that same instant keeps the handle.
C12_LastUseAdvances ==
    [][CallStep /\ last'.lookup = "handle"
          => /\ regions'[last'.region].last_use = now'
             /\ (region_retention' > 0
                    => last'.region \in DOMAIN Retain(regions', now', region_retention'))]_vars

C12_Witness ==
    /\ Called /\ last.lookup = "handle" /\ ~last.loaded
    /\ last.region \in last.before
    /\ now = 1 /\ region_retention = 1
    /\ regions[last.region].last_use = 1

\* C13: the region of a chunk coordinate (x, z) is (floor(x/32), floor(z/32))
\* and its index is (x mod 32) + (z mod 32) * 32 with mod into [0, 32): the
\* index lies in [0, 1024), and no two coordinates share region and index.
C13_CoordinateMapping ==
    last.op = "locate" =>
        LET x  == last.pos[1]
            z  == last.pos[2]
            rx == last.region[1]
            rz == last.region[2]
        IN  /\ x - 32 * rx \in 0..31
            /\ z - 32 * rz \in 0..31
            /\ last.slot = (x - 32 * rx) + 32 * (z - 32 * rz)
            /\ last.slot \in 0..1023
            /\ \A q \in WidePositions :
                   chunk_pos_to_region(q) = last.region /\ ChunkIdx(q) = last.slot
                       => q = last.pos

C13_Witness ==
    /\ last.op = "locate"
    /\ last.pos = <<-33, -2147483647>>
    /\ last.region = <<-2, -67108864>>
    /\ last.slot = 31 + 32 * 1

\* C14 as claimed: the sweep of a lookup at capacity removes exactly the
\* handles idle for longer than the retention.
C14_SweepRemovesIdleBeyondRetention ==
    [][CallStep /\ MapLen(regions) >= max_open_files
          => last'.swept = {k \in DOMAIN regions :
                               now - regions[k].last_use > region_retention}]_vars

\* C14 amended: the sweep of a lookup at capacity removes exactly the handles
\* idle for at least the retention (a handle idle for exactly the retention
\* goes, one idle for less stays); below capacity nothing is swept.  A swept
\* handle is back in the map only when the call itself loaded it again.
C14_SweepRemovesIdleFromRetention ==
    [][CallStep
          => /\ last'.swept =
                    IF MapLen(regions) >= max_open_files
                    THEN {k \in DOMAIN regions :
                              now - regions[k].last_use >= region_retention}
                    ELSE {}
             /\ \A k \in last'.swept :
                    k \in DOMAIN regions' => k = last'.region /\ last'.loaded
             /\ \A k \in DOMAIN regions \ last'.swept :
                    k \in DOMAIN regions' \/ k \in last'.victim]_vars

C14_Witness ==
    /\ Called
    /\ max_open_files = 2 /\ region_retention = 1 /\ now = 1
    /\ Cardinality(last.before) = 2
    /\ Cardinality(last.swept) = 1
    /\ \E k \in last.before \ last.swept :
           k # last.region /\ k \in DOMAIN regions /\ regions[k].last_use = 1

\* C15: after a lookup whose open or header read failed the map has no entry
\* for the requested region, and every handle in the map belongs to a file
\* that was opened and whose 8192 header bytes were all read.
C15_OnlyLoadedHandlesCommitted ==
    /\ LoadFailed => last.region \notin DOMAIN regions
    /\ \A k \in DOMAIN regions :
           /\ regions[k].header # NoFile
           /\ FileSize(regions[k].header) >= 8192
           /\ regions[k].file # NoFile

C15_Witness ==
    /\ last.op = "read_chunk" /\ last.lookup = "io_error"
    /\ disk[last.region] = TruncatedFile
    /\ regions # <<>>
    /\ last.region \notin DOMAIN regions

\* C16: a lookup that fails because the file does not exist is answered as
\* an absent chunk; every other load failure (a file shorter than the 8192
\* header bytes) makes has_chunk and read_chunk return an error.
C16_OnlyNotFoundIsAbsent ==
    Called =>
        /\ last.lookup = "io_error" => last.result.kind = "Io"
        /\ last.lookup = "not_found"
               => last.result.kind = (IF last.op = "has_chunk" THEN "Ok(false)"
                                                               ELSE "Ok(None)")
        /\ disk[last.region] = TruncatedFile /\ last.lookup # "panic"
               => last.result.kind = "Io"

C16_Witness ==
    /\ last.op = "has_chunk" /\ last.lookup = "io_error"
    /\ disk[last.region] = TruncatedFile
    /\ last.result.kind = "Io"

\* C18: a lookup that starts with fewer handles than max_open_files evicts
\* nothing: every cached region is still cached, with the same header and
\* file, and the only key the map can gain is the requested region.
C18_BelowCapacityEvictsNothing ==
    [][CallStep /\ MapLen(regions) < max_open_files
          => /\ \A k \in DOMAIN regions :
                    /\ k \in DOMAIN regions'
                    /\ regions'[k].header = regions[k].header
                    /\ regions'[k].file = regions[k].file
             /\ DOMAIN regions' \subseteq DOMAIN regions \cup {last'.region}
             /\ last'.swept = {} /\ last'.victim = {} /\ ~last'.forced]_vars

C18_Witness ==
    /\ Called /\ last.loaded
    /\ Cardinality(last.before) = 1 /\ max_open_files = 2
    /\ now = 1 /\ region_retention = 1
    /\ \E k \in last.before : k \in DOMAIN regions /\ regions[k].last_use = 0
    /\ Cardinality(DOMAIN regions) = 2

\* C19 as claimed: a lookup whose region fails to load leaves the set of
\* cached regions as it was, also when the cache was at capacity.
C19_FailedLoadKeepsCache ==
    LoadFailed => DOMAIN regions = last.before

\* C19 amended: a lookup whose region fails to load and that started with
\* fewer handles than max_open_files leaves the set of cached regions as it
\* was; at capacity the sweep and the eviction have already run.
C19_FailedLoadBelowCapacityKeepsCache ==
    LoadFailed /\ Cardinality(last.before) < max_open_files
        => DOMAIN regions = last.before /\ last.swept = {} /\ last.victim = {}

C19_Witness ==
    /\ LoadFailed
    /\ max_open_files = 2 /\ Cardinality(last.before) = 1
    /\ now = 1 /\ region_retention = 1
    /\ \E k \in DOMAIN regions : regions[k].last_use = 0
    /\ DOMAIN regions = last.before

\* C20: a handle that stays in the map keeps the header it was loaded with,
\* whatever the calls do and whatever is written to the file's header on
\* disk, and a call that finds the region cached answers from that header.
C20_HeaderIsLoadSnapshot ==
    [][/\ \A k \in DOMAIN regions \cap DOMAIN regions' :
              \/ regions'[k].header = regions[k].header
              \/ CallStep /\ k = last'.region /\ k \in last'.victim \cup last'.swept
       /\ (/\ CallStep /\ last'.lookup = "handle"
           /\ last'.region \in DOMAIN regions
           /\ last'.region \notin last'.victim \cup last'.swept)
              => /\ last'.loc = FileLocation(regions[last'.region].header, last'.slot)
                 /\ (last'.op = "has_chunk"
                        => (last'.result.kind = "Ok(true)") <=> (last'.loc # 0))]_vars

C20_Witness ==
    /\ last.op = "has_chunk" /\ last.lookup = "handle" /\ ~last.loaded
    /\ regions[last.region].header = RewritableFile
    /\ regions[last.region].file = RewrittenFile
    /\ disk[last.region] = RewrittenFile
    /\ last.result.kind = "Ok(true)"
    /\ FileLocation(disk[last.region], last.slot) = 0

\* what a call of task t does to the map seen when it got the lock, run alone
Alone(t) ==
    LET k == tasks[t]
        e == Evict(k.seen, k.rnd, k.t1, max_open_files, region_retention)
    IN  [evicted |-> e,
         entered |-> Entry(e.regions, chunk_pos_to_region(k.pos), disk, k.t2)]

\* C17: with several tasks in has_chunk, at most one task is between
\* acquiring and releasing the lock and it is the lock's holder; the map a
\* task works on is the one it found when it got the lock, changed by its own
\* steps only; so the map after each call is the one the call produces when
\* run alone on the map the previous holder left.
C17_CallsAreSerial ==
    /\ \A t, u \in Tasks : InLock(t) /\ InLock(u) => t = u
    /\ \A t \in Tasks : InLock(t) <=> lock = t
    /\ \A t \in Tasks :
          /\ tasks[t].pc = "locked" => regions = tasks[t].seen
          /\ tasks[t].pc \in {"evicted", "panicked"}
                 => /\ regions = Alone(t).evicted.regions
                    /\ tasks[t].victim = Alone(t).evicted.victim
                    /\ (tasks[t].pc = "panicked") = Alone(t).evicted.panic
          /\ tasks[t].pc = "entered"
                 => /\ regions = Alone(t).entered.regions
                    /\ last.lookup = Alone(t).entered.out
                    /\ last.loaded = Alone(t).entered.loaded

C17_Witness ==
    \E t, u \in Tasks :
        /\ t # u
        /\ tasks[t].pc = "evicted" /\ tasks[t].victim # {}
        /\ lock = t
        /\ tasks[u].pc = "waiting"
        /\ chunk_pos_to_region(tasks[u].pos) \in tasks[t].victim

====
